---- MODULE Spec2Model ----
(***************************************************************************)
(* A model of src/app.py: the paginated fetch of /deals, the normalisation *)
(* of the raw records into the dashboard's columns, the dcc.Store that     *)
(* holds the snapshot, and the update_views callback that derives the      *)
(* table, the two charts and the KPIs from the stored snapshot.            *)
(***************************************************************************)
EXTENDS Integers, Sequences, FiniteSets, TLC

VARIABLES pc, items, next_page, req, runLog, store, lastRun, view, event,
          payload, pageOut, raw, loaded

vars == <<pc, items, next_page, req, runLog, store, lastRun, view, event,
          payload, pageOut, raw, loaded>>

(***************************************************************************)
(* JSON / Python values.  Every value is a record of one shape; t is the   *)
(* Python type, n the number (or 0/1 of a bool, or yyyymmdd of a           *)
(* Timestamp), s the text of a string, l the elements of a list or the     *)
(* members [k, v] of a dict in iteration order.                            *)
(***************************************************************************)
JNull == [t |-> "null", n |-> 0, s |-> "", l |-> <<>>]
JBool(b) == [t |-> "bool", n |-> IF b THEN 1 ELSE 0, s |-> "", l |-> <<>>]
JNum(x) == [t |-> "num", n |-> x, s |-> "", l |-> <<>>]
JStr(x) == [t |-> "str", n |-> 0, s |-> x, l |-> <<>>]
JList(x) == [t |-> "list", n |-> 0, s |-> "", l |-> x]
JDict(x) == [t |-> "dict", n |-> 0, s |-> "", l |-> x]
Member(key, val) == [k |-> key, v |-> val]

\* Python truthiness, as `or`, `not` and bool() apply it.
Truthy(x) ==
    CASE x.t = "null" -> FALSE
      [] x.t = "bool" -> x.n = 1
      [] x.t = "num" -> x.n # 0
      [] x.t = "str" -> x.s # ""
      [] OTHER -> x.l # <<>>

RECURSIVE FirstIndex(_, _, _)
\* The least i >= from with P[i] true, or 0: P is a sequence of booleans.
FirstIndex(P, from, len) ==
    IF from > len THEN 0
    ELSE IF P[from] THEN from
    ELSE FirstIndex(P, from + 1, len)

\* dict.get(key): the member's value, None when the key is missing.
DictGet(d, key) ==
    LET hit == FirstIndex([i \in 1..Len(d.l) |-> d.l[i].k = key], 1, Len(d.l))
    IN IF hit = 0 THEN JNull ELSE d.l[hit].v

\* a or b, on Python values: the first operand when it is truthy.
PyOr(a, b) == IF Truthy(a) THEN a ELSE b

(***************************************************************************)
(* Strings.                                                                *)
(***************************************************************************)
\* str.endswith(suffix)
EndsWith(c, suffix) ==
    /\ Len(c) >= Len(suffix)
    /\ SubSeq(c, Len(c) - Len(suffix) + 1, Len(c)) = suffix

RECURSIVE LastSegmentFrom(_, _)
\* c.split("__")[-1]: the text after the last "__" of c, scanning back from i.
LastSegmentFrom(c, i) ==
    IF i < 2 THEN c
    ELSE IF SubSeq(c, i - 1, i) = "__" THEN SubSeq(c, i + 1, Len(c))
    ELSE LastSegmentFrom(c, i - 1)

LastSegment(c) == LastSegmentFrom(c, Len(c))

\* The characters urllib's quote() leaves alone: letters, digits, "_.-~" and
\* its default safe="/".
QuoteSafe ==
    {"a", "b", "c", "d", "e", "f", "g", "h", "i", "j", "k", "l", "m", "n",
     "o", "p", "q", "r", "s", "t", "u", "v", "w", "x", "y", "z",
     "A", "B", "C", "D", "E", "F",
     "0", "1", "2", "3", "4", "5", "6", "7", "8", "9",
     "_", ".", "-", "~", "/"}

\* The %XX escape of a character quote() does not leave alone.
PercentCode(ch) ==
    CASE ch = " " -> "%20"
      [] ch = "#" -> "%23"
      [] ch = "%" -> "%25"
      [] ch = "&" -> "%26"
      [] ch = "+" -> "%2B"
      [] ch = "=" -> "%3D"
      [] OTHER -> "%3F"

\* A quote() that escapes nothing.
quote_unescaped(string) == string

RECURSIVE quote(_)
\* urllib.parse.quote(string)
quote(string) ==
    IF string = "" THEN ""
    ELSE LET ch == SubSeq(string, 1, 1)
         IN (IF ch \in QuoteSafe THEN ch ELSE PercentCode(ch))
                \o quote(SubSeq(string, 2, Len(string)))

(***************************************************************************)
(* fetch_all_deals: one pass of the loop body on the response `data`.      *)
(***************************************************************************)
BASE_URL == "https://crm.rdstation.com/api/v1"

\* data.get(...) needs a dict: any other JSON value raises AttributeError.
NotADict(data) == data.t # "dict"

\* The first list among the values of a dict, or the dict itself.
FirstListValue(d) ==
    LET hit == FirstIndex([i \in 1..Len(d.l) |-> d.l[i].v.t = "list"], 1, Len(d.l))
    IN IF hit = 0 THEN d ELSE d.l[hit].v

\* The records the loop takes from one page.
DealsPage(data) ==
    LET picked == PyOr(PyOr(DictGet(data, "deals"), DictGet(data, "items")), data)
        found == IF picked.t = "dict" THEN FirstListValue(picked) ELSE picked
    IN IF found.t = "list" THEN found.l ELSE <<>>

\* What one pass of the loop takes from the response, or that it raised.
TakePage(data) ==
    IF NotADict(data) THEN [raised |-> TRUE, records |-> <<>>]
    ELSE [raised |-> FALSE, records |-> DealsPage(data)]

HasMore(data) == Truthy(DictGet(data, "has_more"))

NextPage(data) == DictGet(data, "next_page")

\* The break taken only when both are falsy.
LoopBreaks_and(data) == ~HasMore(data) /\ ~Truthy(NextPage(data))

\* if not has_more or not next_page: break
LoopBreaks(data) == ~HasMore(data) \/ ~Truthy(NextPage(data))

\* quote() raises TypeError on a cursor that is neither str nor bytes.
QuoteRaises(cursor) == Truthy(cursor) /\ cursor.t # "str"

\* The URL of the next request: the cursor is appended only when truthy.
RequestUrl(cursor) ==
    IF Truthy(cursor)
    THEN BASE_URL \o "/deals" \o "?next_page=" \o quote(cursor.s)
    ELSE BASE_URL \o "/deals"

(***************************************************************************)
(* pandas values and frames.  A frame is its column names, in order, and   *)
(* its rows, each the sequence of the cells under those columns.  A cell   *)
(* that is NaN, NaT or None is JNull; a Timestamp is JTs(yyyymmdd).        *)
(***************************************************************************)
JTs(x) == [t |-> "ts", n |-> x, s |-> "", l |-> <<>>]

Frame(cols, rws) == [raised |-> FALSE, columns |-> cols, rows |-> rws]

\* pd.DataFrame(): no columns, no rows.
EmptyFrame == Frame(<<>>, <<>>)

\* A call that ended in an exception instead of a frame.
RaisedFrame == [raised |-> TRUE, columns |-> <<>>, rows |-> <<>>]

InSeq(x, sq) == \E i \in 1..Len(sq) : sq[i] = x

RECURSIVE NormaliseJson(_, _)
\* The flat members of a nested dict, keys joined with "__".
NormaliseJson(members, key_string) ==
    IF members = <<>> THEN <<>>
    ELSE LET m == Head(members)
             new_key == IF key_string = "" THEN m.k ELSE key_string \o "__" \o m.k
             here == IF m.v.t = "dict" THEN NormaliseJson(m.v.l, new_key)
                     ELSE <<Member(new_key, m.v)>>
         IN here \o NormaliseJson(Tail(members), key_string)

\* One record as json_normalize flattens it: the top-level members that are
\* not dicts first, then the members of the nested dicts.
FlatRecord(rec) ==
    SelectSeq(rec.l, LAMBDA m : m.v.t # "dict")
        \o NormaliseJson(SelectSeq(rec.l, LAMBDA m : m.v.t = "dict"), "")

RECURSIVE UnionColumns(_, _)
\* The keys of the flat records, each once, in order of first appearance.
UnionColumns(flats, seen) ==
    IF flats = <<>> THEN seen
    ELSE LET keys == [i \in 1..Len(Head(flats)) |-> Head(flats)[i].k]
             fresh == SelectSeq(keys, LAMBDA c : ~InSeq(c, seen))
         IN UnionColumns(Tail(flats), seen \o fresh)

\* pd.DataFrame(list of flat dicts): a missing key is NaN.
FrameOfFlats(flats) ==
    LET cols == UnionColumns(flats, <<>>)
    IN Frame(cols,
             [i \in 1..Len(flats) |->
                 [j \in 1..Len(cols) |-> DictGet(JDict(flats[i]), cols[j])]])

\* pd.json_normalize(deals, sep="__")
json_normalize(deals) ==
    FrameOfFlats([i \in 1..Len(deals) |-> FlatRecord(deals[i])])

(***************************************************************************)
(* load_data: the rename map and its resolution against the columns.       *)
(***************************************************************************)
rename_map ==
    << <<"id", "id">>, <<"name", "nome">>, <<"status", "status">>,
       <<"stage", "etapa">>, <<"amount", "valor">>, <<"value", "valor">>,
       <<"closed_at", "closed_at">>, <<"prediction_date", "prediction_date">>,
       <<"created_at", "created_at">> >>

\* map[key] = val: in place when the key is there, appended otherwise.
MapPut(map, key, val) ==
    IF \E i \in 1..Len(map) : map[i][1] = key
    THEN [i \in 1..Len(map) |-> IF map[i][1] = key THEN <<key, val>> ELSE map[i]]
    ELSE Append(map, <<key, val>>)

\* map.pop(key, None)
MapPop(map, key) == SelectSeq(map, LAMBDA e : e[1] # key)

\* The columns that are variations of key k.
Alt(cols, k) == SelectSeq(cols, LAMBDA c : EndsWith(c, k) \/ LastSegment(c) = k)

\* One pass of the loop over the map's original items.
ResolveKey(map, k, v, cols) ==
    IF InSeq(k, cols) THEN map
    ELSE IF Alt(cols, k) # <<>> THEN MapPop(MapPut(map, Alt(cols, k)[1], v), k)
    ELSE map

RECURSIVE ResolveFrom(_, _, _)
\* The loop over list(rename_map.items()), from its i-th item on.
ResolveFrom(map, i, cols) ==
    IF i > Len(rename_map) THEN map
    ELSE ResolveFrom(ResolveKey(map, rename_map[i][1], rename_map[i][2], cols),
                     i + 1, cols)

ResolvedMap(cols) == ResolveFrom(rename_map, 1, cols)

\* df.rename(columns=map): a column the map names takes the mapped name.
RenameColumns(cols, map) ==
    [j \in 1..Len(cols) |->
        IF \E i \in 1..Len(map) : map[i][1] = cols[j]
        THEN map[CHOOSE i \in 1..Len(map) : map[i][1] = cols[j]][2]
        ELSE cols[j]]

(***************************************************************************)
(* load_data: coercions.                                                   *)
(***************************************************************************)
Digits == "0123456789"

\* The value of a digit character, -1 for any other character.
DigitVal(ch) ==
    IF \E d \in 0..9 : SubSeq(Digits, d + 1, d + 1) = ch
    THEN CHOOSE d \in 0..9 : SubSeq(Digits, d + 1, d + 1) = ch
    ELSE -1

AllDigits(str) ==
    /\ str # ""
    /\ \A i \in 1..Len(str) : DigitVal(SubSeq(str, i, i)) >= 0

RECURSIVE DigitsValue(_)
\* The number a non-empty string of digits writes.
DigitsValue(str) ==
    IF Len(str) = 1 THEN DigitVal(str)
    ELSE 10 * DigitsValue(SubSeq(str, 1, Len(str) - 1))
            + DigitVal(SubSeq(str, Len(str), Len(str)))

\* The number of days of month m of year y.
DaysInMonth(y, m) ==
    IF m \in {4, 6, 9, 11} THEN 30
    ELSE IF m # 2 THEN 31
    ELSE IF (y % 4 = 0 /\ y % 100 # 0) \/ y % 400 = 0 THEN 29
    ELSE 28

\* pd.to_datetime(value, errors="coerce") on one cell, followed by
\* .dt.tz_localize(None): an ISO date "YYYY-MM-DD" parses to the (naive)
\* Timestamp of that day; any other string, and None, is NaT.
to_datetime(x) ==
    IF /\ x.t = "str"
       /\ Len(x.s) = 10
       /\ SubSeq(x.s, 5, 5) = "-"
       /\ SubSeq(x.s, 8, 8) = "-"
       /\ AllDigits(SubSeq(x.s, 1, 4))
       /\ AllDigits(SubSeq(x.s, 6, 7))
       /\ AllDigits(SubSeq(x.s, 9, 10))
       /\ DigitsValue(SubSeq(x.s, 6, 7)) \in 1..12
       /\ DigitsValue(SubSeq(x.s, 9, 10))
             \in 1..DaysInMonth(DigitsValue(SubSeq(x.s, 1, 4)),
                                DigitsValue(SubSeq(x.s, 6, 7)))
    THEN JTs(10000 * DigitsValue(SubSeq(x.s, 1, 4))
                + 100 * DigitsValue(SubSeq(x.s, 6, 7))
                + DigitsValue(SubSeq(x.s, 9, 10)))
    ELSE JNull

\* pd.to_numeric(value, errors="coerce") on one cell: a number stays, a
\* string of digits parses, anything else is NaN.
to_numeric(x) ==
    CASE x.t = "num" -> x
      [] x.t = "str" /\ AllDigits(x.s) -> JNum(DigitsValue(x.s))
      [] OTHER -> JNull

DateColumns == <<"closed_at", "prediction_date", "created_at">>

keep_order ==
    <<"id", "nome", "status", "etapa", "valor",
      "closed_at", "prediction_date", "created_at">>

\* How many columns carry the name c.
CountColumn(cols, c) == Cardinality({j \in 1..Len(cols) : cols[j] = c})

\* df[c] on a frame with two columns named c is a DataFrame, on which
\* pd.to_numeric raises TypeError.
ToNumericRaises(cols) == CountColumn(cols, "valor") > 1

\* The cell after the date and number conversions of its column.
Coerce(col, x) ==
    IF InSeq(col, DateColumns) THEN to_datetime(x)
    ELSE IF col = "valor" THEN to_numeric(x)
    ELSE x

\* The positions of the columns df[keep_cols] selects (all columns when
\* none of the friendly names is there).
KeepPositions(cols) ==
    LET keep_cols == SelectSeq(keep_order, LAMBDA c : InSeq(c, cols))
    IN IF keep_cols = <<>> THEN [j \in 1..Len(cols) |-> j]
       ELSE [i \in 1..Len(keep_cols) |->
                CHOOSE j \in 1..Len(cols) : cols[j] = keep_cols[i]]

\* load_data, from the records fetch_all_deals returned.
load_data(deals) ==
    IF deals = <<>> THEN EmptyFrame
    ELSE LET df == json_normalize(deals)
             cols == RenameColumns(df.columns, ResolvedMap(df.columns))
             keep == KeepPositions(cols)
         IN IF ToNumericRaises(cols) THEN RaisedFrame
            ELSE Frame([i \in 1..Len(keep) |-> cols[keep[i]]],
                       [r \in 1..Len(df.rows) |->
                           [i \in 1..Len(keep) |->
                               Coerce(cols[keep[i]], df.rows[r][keep[i]])]])

(***************************************************************************)
(* The dcc.Store: df.to_dict("records") as the JSON the browser holds.     *)
(***************************************************************************)
\* A number below 10^width as text, zero-padded to width digits.
RECURSIVE Padded(_, _)
Padded(x, width) ==
    IF width = 0 THEN ""
    ELSE Padded(x \div 10, width - 1) \o SubSeq(Digits, (x % 10) + 1, (x % 10) + 1)

\* Timestamp.isoformat() of the day yyyymmdd.
isoformat(x) ==
    Padded(x \div 10000, 4) \o "-" \o Padded((x \div 100) % 100, 2) \o "-"
        \o Padded(x % 100, 2) \o "T00:00:00"

\* One cell as JSON: a Timestamp is its ISO text, NaN and NaT are null.
JsonCell(x) == IF x.t = "ts" THEN JStr(isoformat(x.n)) ELSE x

\* df.to_dict("records"), serialised into the store.
to_dict_records(df) ==
    [r \in 1..Len(df.rows) |->
        JDict([j \in 1..Len(df.columns) |->
                  Member(df.columns[j], JsonCell(df.rows[r][j]))])]

(***************************************************************************)
(* update_views.                                                           *)
(***************************************************************************)
\* ASCII order of the characters the grouped keys are written with.
Alphabet == "-0123456789:ABCDEFGHIJKLMNOPQRSTUVWXYZ_abcdefghijklmnopqrstuvwxyz"

CharRank(ch) ==
    CHOOSE i \in 1..Len(Alphabet) : SubSeq(Alphabet, i, i) = ch

RECURSIVE StrLess(_, _)
\* a < b, as Python orders strings.
StrLess(a, b) ==
    IF b = "" THEN FALSE
    ELSE IF a = "" THEN TRUE
    ELSE IF SubSeq(a, 1, 1) # SubSeq(b, 1, 1)
         THEN CharRank(SubSeq(a, 1, 1)) < CharRank(SubSeq(b, 1, 1))
    ELSE StrLess(SubSeq(a, 2, Len(a)), SubSeq(b, 2, Len(b)))

RECURSIVE SortedKeys(_)
\* The strings of a finite set in ascending order.
SortedKeys(S) ==
    IF S = {} THEN <<>>
    ELSE LET least == CHOOSE a \in S : \A b \in S \ {a} : StrLess(a, b)
         IN <<least>> \o SortedKeys(S \ {least})

\* The position of column c of a frame that has it.
ColumnAt(df, c) == CHOOSE j \in 1..Len(df.columns) : df.columns[j] = c

\* A filter that compares with the first selected value only.
WhereIsFirst(df, c, selected) ==
    Frame(df.columns,
          SelectSeq(df.rows,
                    LAMBDA row : row[CHOOSE j \in 1..Len(df.columns) : df.columns[j] = c]
                                    = selected.l[1]))

\* df[df[c].isin(selected)]
WhereIsIn(df, c, selected) ==
    Frame(df.columns,
          SelectSeq(df.rows,
                    LAMBDA row : InSeq(row[ColumnAt(df, c)], selected.l)))

\* The two filters: each applies when its selection is truthy and its
\* column is there.
Filtered(df, etapas_sel, status_sel) ==
    LET byStage == IF Truthy(etapas_sel) /\ InSeq("etapa", df.columns)
                   THEN WhereIsIn(df, "etapa", etapas_sel) ELSE df
    IN IF Truthy(status_sel) /\ InSeq("status", byStage.columns)
       THEN WhereIsIn(byStage, "status", status_sel) ELSE byStage

\* The texts of the cells of a sequence of text cells.
CellTexts(cells) == {cells[i].s : i \in 1..Len(cells)}

\* groupby(key).size(): the count of each text of `cells`, keys ascending;
\* NaN keys form no group.
GroupSizes(cells) ==
    LET present == SelectSeq(cells, LAMBDA x : x.t # "null")
        keys == SortedKeys(CellTexts(present))
    IN [i \in 1..Len(keys) |->
           <<keys[i], Cardinality({r \in 1..Len(present) : present[r].s = keys[i]})>>]

\* The column c of a frame, as the sequence of its cells.
Column(df, c) == [r \in 1..Len(df.rows) |-> df.rows[r][ColumnAt(df, c)]]

RECURSIVE IntText(_)
\* f"{x}" of a natural number.
IntText(x) ==
    IF x < 10 THEN SubSeq(Digits, x + 1, x + 1)
    ELSE IntText(x \div 10) \o SubSeq(Digits, (x % 10) + 1, (x % 10) + 1)

RECURSIVE Grouped(_)
\* A natural number with "," between its groups of three digits.
Grouped(x) ==
    IF x < 1000 THEN IntText(x)
    ELSE Grouped(x \div 1000) \o "," \o Padded(x % 1000, 3)

\* f"{x:,.2f}" of a whole amount.
Money(x) == Grouped(x) \o ".00"

RECURSIVE SumCells(_)
\* Series.sum(): NaN cells are skipped.
SumCells(cells) ==
    IF cells = <<>> THEN 0
    ELSE (IF Head(cells).t = "num" THEN Head(cells).n ELSE 0) + SumCells(Tail(cells))

\* A test that never finds the column all-NaN.
AllNa_never(cells) == FALSE

AllNa(cells) == \A i \in 1..Len(cells) : cells[i].t = "null"

\* kpi_children: the count, and the sum when there is one.
Kpis(df) ==
    <<  <<"Deals", IntText(Len(df.rows))>> >>
        \o (IF InSeq("valor", df.columns) /\ ~AllNa(Column(df, "valor"))
            THEN << <<"Soma Valor", Money(SumCells(Column(df, "valor")))>> >>
            ELSE <<>>)

\* The stage chart.
StageFigure(df) ==
    IF InSeq("etapa", df.columns)
    THEN [title |-> "Deals por Etapa", bars |-> GroupSizes(Column(df, "etapa"))]
    ELSE [title |-> "Deals por Etapa (coluna 'etapa' nao encontrada)", bars |-> <<>>]

\* date_col: created_at, else closed_at, else None ("").
DateCol(df) ==
    IF InSeq("created_at", df.columns) THEN "created_at"
    ELSE IF InSeq("closed_at", df.columns) THEN "closed_at"
    ELSE ""

\* dff: the rows whose date is not NaN, as the cells of the date column.
DatedCells(df) ==
    SelectSeq(Column(df, DateCol(df)), LAMBDA x : x.t # "null")

\* The .dt accessor exists only on a datetime column: on a column of
\* strings (dtype object) it raises AttributeError.
DtRaises(cells) == \E i \in 1..Len(cells) : cells[i].t # "ts"

\* .dt.to_period("M").astype(str)
to_period_M(x) ==
    JStr(Padded(x.n \div 10000, 4) \o "-" \o Padded((x.n \div 100) % 100, 2))

MonthRaises(df) ==
    /\ DateCol(df) # ""
    /\ DatedCells(df) # <<>>
    /\ DtRaises(DatedCells(df))

\* The monthly chart, when the .dt accessor does not raise.
MonthFigure(df) ==
    IF DateCol(df) = ""
    THEN [title |-> "Deals por Mes (sem colunas de data)", bars |-> <<>>]
    ELSE [title |-> "Deals por Mes (" \o DateCol(df) \o ")",
          bars |-> GroupSizes([i \in 1..Len(DatedCells(df)) |->
                                  to_period_M(DatedCells(df)[i])])]

NoView == [raised |-> FALSE, called |-> FALSE, tabela |-> <<>>,
           fig1 |-> [title |-> "", bars |-> <<>>],
           fig2 |-> [title |-> "", bars |-> <<>>], kpis |-> <<>>,
           etapas_sel |-> JNull, status_sel |-> JNull]

\* update_views(data, etapas_sel, status_sel): the four outputs, or raised.
update_views(data, etapas_sel, status_sel) ==
    LET df == Filtered(FrameOfFlats([i \in 1..Len(data) |-> data[i].l]),
                       etapas_sel, status_sel)
    IN IF MonthRaises(df)
       THEN [NoView EXCEPT !.raised = TRUE, !.called = TRUE,
                           !.etapas_sel = etapas_sel, !.status_sel = status_sel]
       ELSE [raised |-> FALSE, called |-> TRUE,
             tabela |-> to_dict_records(df),
             fig1 |-> StageFigure(df), fig2 |-> MonthFigure(df),
             kpis |-> Kpis(df),
             etapas_sel |-> etapas_sel, status_sel |-> status_sel]

(***************************************************************************)
(* The bounded world: raw deals, page responses, filter selections.        *)
(***************************************************************************)
\* The longest run of pages the API serves to one load.
MaxPages == 3

dealA ==
    JDict(<<Member("id", JNum(1)), Member("stage", JStr("won")),
            Member("status", JStr("open")), Member("amount", JNum(100)),
            Member("created_at", JStr("2024-01-05"))>>)

dealB ==
    JDict(<<Member("id", JNum(2)), Member("stage", JStr("lost")),
            Member("status", JStr("open")), Member("amount", JNull),
            Member("created_at", JStr("not-a-date"))>>)

dealC ==
    JDict(<<Member("id", JNum(3)),
            Member("deal", JDict(<<Member("value", JStr("42"))>>))>>)

Page(members) == JDict(members)

\* The responses _get can return in the application's runs.
Pages ==
    { Page(<<Member("deals", JList(<<dealA, dealB>>)),
             Member("has_more", JBool(TRUE)), Member("next_page", JStr("c1"))>>),
      Page(<<Member("items", JList(<<dealB>>)),
             Member("has_more", JBool(TRUE)), Member("next_page", JStr("p=2&x"))>>),
      Page(<<Member("deals", JList(<<dealC>>)),
             Member("has_more", JBool(FALSE)), Member("next_page", JNull)>>),
      Page(<<Member("deals", JList(<<dealA>>)), Member("has_more", JBool(TRUE))>>),
      Page(<<Member("deals", JList(<<>>)),
             Member("has_more", JBool(FALSE)), Member("next_page", JStr("c1"))>>),
      JList(<<dealA>>),
      Page(<<Member("deals", JList(<<dealB>>)),
             Member("has_more", JBool(TRUE)), Member("next_page", JNum(2))>>) }

\* What the two dropdowns can send in the application's runs.
StageSelections == {JNull, JList(<<JStr("won")>>)}

StatusSelections == {JNull, JList(<<JStr("open")>>)}

(***************************************************************************)
(* The application: the load at start, the reload callback, update_views.  *)
(***************************************************************************)
Loading == pc \in {"startup", "reload"}

\* The layout, and with it the store, exists once the load at start is done.
LaidOut == pc \in {"idle", "reload"}

\* A page is a valid continuation when has_more and next_page are truthy.
ValidContinuation(data) ==
    /\ data.t = "dict"
    /\ Truthy(DictGet(data, "has_more"))
    /\ Truthy(DictGet(data, "next_page"))

\* The API answers the pending request with `data`: it serves at most
\* MaxPages pages to a load, and the last of them is no valid continuation.
Serves(data) ==
    /\ Loading
    /\ Len(runLog) < MaxPages
    /\ Len(runLog) + 1 = MaxPages => ~ValidContinuation(data)

Exchange(data) == [url |-> req, data |-> data]

\* An exception leaves load_data: at start the process dies, in the
\* callback the store keeps its value.
Raise(why) ==
    /\ pc' = IF pc = "startup" THEN "crashed" ELSE "idle"
    /\ event' = why
    /\ UNCHANGED <<store, lastRun, view, payload, pageOut, raw, loaded>>

\* The parts of the state a specification of one function leaves alone.
AppAtRest ==
    /\ items = <<>>
    /\ next_page = JNull
    /\ req = RequestUrl(JNull)
    /\ runLog = <<>>
    /\ lastRun = <<>>
    /\ view = NoView

FunctionsAtRest ==
    /\ payload = JNull
    /\ pageOut = [raised |-> FALSE, records |-> <<>>]
    /\ raw = <<>>
    /\ loaded = EmptyFrame

\* The process starts: line 158 calls load_data before there is a layout.
Init ==
    /\ pc = "startup"
    /\ store = <<>>
    /\ event = "start"
    /\ AppAtRest
    /\ FunctionsAtRest

\* A failed request whose handler stores what was fetched so far.
TransportError_publishing ==
    /\ Loading
    /\ Len(runLog) < MaxPages
    /\ UNCHANGED <<items, next_page, req, runLog>>
    /\ pc' = IF pc = "startup" THEN "crashed" ELSE "idle"
    /\ event' = "transport_error"
    /\ \E df \in {load_data(items)} : store' = to_dict_records(df)
    /\ UNCHANGED <<lastRun, view, payload, pageOut, raw, loaded>>

\* _get raises: the request failed, or its status was not a success.
TransportError ==
    /\ Loading
    /\ Len(runLog) < MaxPages
    /\ UNCHANGED <<items, next_page, req, runLog>>
    /\ Raise("transport_error")

\* The response cannot be read, or its cursor cannot be quoted.
PageRaises ==
    \E data \in Pages :
        /\ Serves(data)
        /\ \/ NotADict(data)
           \/ ~NotADict(data) /\ ~LoopBreaks(data) /\ QuoteRaises(NextPage(data))
        /\ runLog' = Append(runLog, Exchange(data))
        /\ items' = IF NotADict(data) THEN items ELSE items \o DealsPage(data)
        /\ next_page' = IF NotADict(data) THEN next_page ELSE NextPage(data)
        /\ UNCHANGED req
        /\ Raise(IF NotADict(data) THEN "attribute_error" ELSE "type_error")

\* A loop that stores the records of every page as it takes it.
PageContinues_publishing ==
    \E data \in Pages :
        /\ Serves(data)
        /\ ~NotADict(data)
        /\ ~LoopBreaks(data)
        /\ ~QuoteRaises(NextPage(data))
        /\ items' = items \o DealsPage(data)
        /\ next_page' = NextPage(data)
        /\ req' = RequestUrl(NextPage(data))
        /\ runLog' = Append(runLog, Exchange(data))
        /\ event' = "page"
        /\ \E df \in {load_data(items \o DealsPage(data))} :
               store' = IF df.raised THEN store ELSE to_dict_records(df)
        /\ UNCHANGED <<pc, lastRun, view, payload, pageOut, raw, loaded>>

\* The page is taken and the loop goes on to request the next one.
PageContinues ==
    \E data \in Pages :
        /\ Serves(data)
        /\ ~NotADict(data)
        /\ ~LoopBreaks(data)
        /\ ~QuoteRaises(NextPage(data))
        /\ items' = items \o DealsPage(data)
        /\ next_page' = NextPage(data)
        /\ req' = RequestUrl(NextPage(data))
        /\ runLog' = Append(runLog, Exchange(data))
        /\ event' = "page"
        /\ UNCHANGED <<pc, store, lastRun, view, payload, pageOut, raw, loaded>>

\* The page is taken, the loop breaks, load_data normalises the records and
\* its caller puts them in the store.
PageCompletes ==
    \E data \in Pages :
        /\ Serves(data)
        /\ ~NotADict(data)
        /\ LoopBreaks(data)
        /\ items' = items \o DealsPage(data)
        /\ next_page' = NextPage(data)
        /\ runLog' = Append(runLog, Exchange(data))
        /\ UNCHANGED req
        /\ \E df \in {load_data(items \o DealsPage(data))} :
            IF df.raised
            THEN Raise("load_error")
            ELSE /\ store' = to_dict_records(df)
                 /\ lastRun' = Append(runLog, Exchange(data))
                 /\ pc' = "idle"
                 /\ event' = "loaded"
                 /\ UNCHANGED <<view, payload, pageOut, raw, loaded>>

\* reload_data(n): the button starts a load.
ReloadClicked ==
    /\ pc = "idle"
    /\ pc' = "reload"
    /\ items' = <<>>
    /\ next_page' = JNull
    /\ req' = RequestUrl(JNull)
    /\ runLog' = <<>>
    /\ event' = "click"
    /\ UNCHANGED <<store, lastRun, view, payload, pageOut, raw, loaded>>

\* update_views on the store and the two selections.
UpdateViews(stages, statuses) ==
    \E etapas_sel \in stages, status_sel \in statuses :
        /\ LaidOut
        /\ \E out \in {update_views(store, etapas_sel, status_sel)} : view' = out
        /\ UNCHANGED <<pc, items, next_page, req, runLog, store, lastRun, event,
                       payload, pageOut, raw, loaded>>

Next ==
    \/ TransportError
    \/ PageRaises
    \/ PageContinues
    \/ PageCompletes
    \/ ReloadClicked
    \/ UpdateViews(StageSelections, StatusSelections)

Spec == Init /\ [][Next]_vars

\* The scheduler runs a started load on: each request is answered.
FairSpec ==
    Spec /\ WF_vars(TransportError \/ PageRaises \/ PageContinues \/ PageCompletes)

(***************************************************************************)
(* The claims about pagination and the store.                              *)
(***************************************************************************)
\* The characters quote() escapes.
Escaped == {" ", "#", "%", "&", "+", "=", "?"}

RECURSIVE unquote(_)
\* What the API reads back from an escaped query value.
unquote(str) ==
    IF str = "" THEN ""
    ELSE IF SubSeq(str, 1, 1) = "%" /\ Len(str) >= 3
              /\ \E ch \in Escaped : PercentCode(ch) = SubSeq(str, 1, 3)
         THEN (CHOOSE ch \in Escaped : PercentCode(ch) = SubSeq(str, 1, 3))
                  \o unquote(SubSeq(str, 4, Len(str)))
    ELSE SubSeq(str, 1, 1) \o unquote(SubSeq(str, 2, Len(str)))

RECURSIVE UpToAmpersand(_)
\* A query value ends at the first "&".
UpToAmpersand(str) ==
    IF str = "" \/ SubSeq(str, 1, 1) = "&" THEN ""
    ELSE SubSeq(str, 1, 1) \o UpToAmpersand(SubSeq(str, 2, Len(str)))

FirstPageUrl == BASE_URL \o "/deals"

HasCursor(url) == url # FirstPageUrl

\* The cursor the API receives with a request that carries one.
CursorSent(url) ==
    unquote(UpToAmpersand(SubSeq(url, Len(FirstPageUrl \o "?next_page=") + 1, Len(url))))

RECURSIVE ConcatPages(_)
\* The deal lists of the logged pages, one after the other.
ConcatPages(log) ==
    IF log = <<>> THEN <<>>
    ELSE ConcatPages(SubSeq(log, 1, Len(log) - 1)) \o DealsPage(log[Len(log)].data)

\* A run of pages that ended: every page but the last a valid continuation.
CompleteRun(log) ==
    /\ log # <<>>
    /\ \A n \in 1..Len(log) : log[n].data.t = "dict"
    /\ \A n \in 1..(Len(log) - 1) : ValidContinuation(log[n].data)
    /\ ~ValidContinuation(log[Len(log)].data)

\* C1: fetch_all_deals requests a further page only after a response whose
\* has_more and next_page are both truthy, and every load that is served a
\* finite run of pages whose last page is no valid continuation ends.
C1_PaginationTerminates ==
    /\ [][(Loading /\ pc' = pc /\ Len(runLog') = Len(runLog) + 1)
            => ValidContinuation(runLog'[Len(runLog')].data)]_vars
    /\ (Loading ~> ~Loading)

\* C1 witness: a load ended on a page with has_more true and no next_page.
C1_Witness ==
    /\ event = "loaded"
    /\ Len(runLog) >= 2
    /\ HasMore(runLog[Len(runLog)].data)
    /\ ~Truthy(NextPage(runLog[Len(runLog)].data))

\* C2: the records accumulated by fetch_all_deals are the concatenation of
\* the deal lists of the pages fetched, in page order; the first request
\* carries no cursor and each later request carries the cursor the page
\* before it returned.
C2_ConcatenatesInPageOrder ==
    (Loading \/ event \in {"loaded", "load_error"}) =>
        /\ items = ConcatPages(runLog)
        /\ runLog # <<>> => ~HasCursor(runLog[1].url)
        /\ \A n \in 1..(Len(runLog) - 1) :
              /\ HasCursor(runLog[n + 1].url)
              /\ CursorSent(runLog[n + 1].url) = NextPage(runLog[n].data).s
        /\ (Loading /\ runLog # <<>>) =>
              /\ HasCursor(req)
              /\ CursorSent(req) = NextPage(runLog[Len(runLog)].data).s
        /\ (Loading /\ runLog = <<>>) => ~HasCursor(req)

\* C2 witness: a load of three pages returned, the second of them fetched
\* with a cursor that needs escaping.
C2_Witness ==
    /\ event = "loaded"
    /\ Len(runLog) = 3
    /\ Len(items) >= 3
    /\ NextPage(runLog[2].data).s = "p=2&x"

\* C3: a reload that fails with a transport error, on its first page or on
\* a later one, leaves the store as it was.
C3_TransportErrorKeepsSnapshot ==
    [][(pc = "reload" /\ pc' = "idle" /\ event' = "transport_error")
          => store' = store]_vars

\* C3 witness: a reload failed on a later page while the store held a
\* non-empty snapshot.
C3_Witness ==
    /\ pc = "idle"
    /\ event = "transport_error"
    /\ runLog # <<>>
    /\ items # <<>>
    /\ store # <<>>

\* C4: the store always holds the normalised records of one complete run
\* of pages, and it changes only in the step that ends a successful load.
C4_SnapshotIsComplete ==
    /\ [](LaidOut =>
            /\ CompleteRun(lastRun)
            /\ ~load_data(ConcatPages(lastRun)).raised
            /\ store = to_dict_records(load_data(ConcatPages(lastRun))))
    /\ [][store' # store =>
            /\ Loading
            /\ pc' = "idle"
            /\ event' = "loaded"
            /\ lastRun' = runLog'
            /\ CompleteRun(runLog')]_vars

\* C4 witness: update_views ran on the old snapshot while a reload had
\* already accumulated records of its own.
C4_Witness ==
    /\ pc = "reload"
    /\ items # <<>>
    /\ store # <<>>
    /\ store # to_dict_records(load_data(items))
    /\ view.called
    /\ event = "page"

(***************************************************************************)
(* One pass of the loop body over the shapes a response can have.          *)
(***************************************************************************)
\* What the response can hold under "deals": nothing, an empty list, a
\* list, null, a string, an object with a list inside.
DealsShapes ==
    { <<>>,
      <<Member("deals", JList(<<>>))>>,
      <<Member("deals", JList(<<dealA>>))>>,
      <<Member("deals", JNull)>>,
      <<Member("deals", JStr("none"))>>,
      <<Member("deals", JDict(<<Member("data", JList(<<dealB>>))>>))>> }

ItemsShapes ==
    { <<>>, <<Member("items", JList(<<>>))>>, <<Member("items", JList(<<dealB>>))>> }

\* Another list-valued member of the response.
Included == <<Member("included", JList(<<dealC>>))>>

Trailer == <<Member("has_more", JBool(FALSE)), Member("message", JStr("ok"))>>

\* Where the other list stands: nowhere, before `deals`, after the rest.
IncludedAt == { <<<<>>, <<>>>>, <<Included, <<>>>>, <<<<>>, Included>> }

PagePayloads ==
    { JDict(at[1] \o d \o i \o Trailer \o at[2]) :
        d \in DealsShapes, i \in ItemsShapes, at \in IncludedAt }
    \cup { JList(<<>>), JList(<<dealA>>), JList(<<dealA, dealB>>) }

InitPage ==
    /\ pc = "page"
    /\ store = <<>>
    /\ event = "response"
    /\ AppAtRest
    /\ payload \in PagePayloads
    /\ pageOut = [raised |-> FALSE, records |-> <<>>]
    /\ raw = <<>>
    /\ loaded = EmptyFrame

\* Lines 37-48 on the response.
PageTaken ==
    /\ pc = "page"
    /\ event = "response"
    /\ \E out \in {TakePage(payload)} : pageOut' = out
    /\ event' = "taken"
    /\ UNCHANGED <<pc, items, next_page, req, runLog, store, lastRun, view,
                   payload, raw, loaded>>

PageSpec == InitPage /\ [][PageTaken]_vars

\* The key is there with a value (JSON null stands for no value).
HasKey(d, key) == \E i \in 1..Len(d.l) : d.l[i].k = key /\ d.l[i].v.t # "null"

\* The list a value is, and no records when it is not a list.
ListOrNone(x) == IF x.t = "list" THEN x.l ELSE <<>>

\* The precedence the design states: `deals`, else `items`, else the payload
\* when it is a list, else the first list-valued member; else no records.
StatedRecords(data) ==
    IF data.t = "list" THEN data.l
    ELSE IF data.t # "dict" THEN <<>>
    ELSE IF HasKey(data, "deals") THEN ListOrNone(DictGet(data, "deals"))
    ELSE IF HasKey(data, "items") THEN ListOrNone(DictGet(data, "items"))
    ELSE ListOrNone(FirstListValue(data))

\* C5: the records taken from a page follow the stated precedence, and a
\* page in which no list is found contributes no records without failing.
C5_PagePrecedence ==
    event = "taken" =>
        /\ ~pageOut.raised
        /\ pageOut.records = StatedRecords(payload)

(***************************************************************************)
(* load_data over the column names raw records can have.                   *)
(***************************************************************************)
\* The longest list of raw records normalised on its own.
MaxRaw == 2

\* Raw records that differ in where, and whether, they carry an amount.
NormRecords ==
    { JDict(<<Member("id", JNum(1)), Member("amount", JNum(100))>>),
      JDict(<<Member("id", JNum(2)), Member("value", JNum(42))>>),
      JDict(<<Member("id", JNum(3)), Member("amount", JNum(10)),
              Member("value", JNum(42))>>),
      JDict(<<Member("id", JNum(4)), Member("amount", JStr("7"))>>),
      JDict(<<Member("id", JNum(5)), Member("value", JStr("n/a"))>>),
      JDict(<<Member("id", JNum(6)),
              Member("deal", JDict(<<Member("amount", JNum(5))>>))>>),
      JDict(<<Member("id", JNum(7)),
              Member("deal", JDict(<<Member("value", JNum(9))>>))>>),
      JDict(<<Member("id", JNum(8)), Member("total_amount", JNum(30)),
              Member("name", JStr("Acme"))>>),
      JDict(<<Member("id", JNum(9)), Member("stage", JStr("won")),
              Member("created_at", JStr("2024-01-05"))>>),
      JDict(<<Member("name", JStr("Bolt"))>>) }

RawInputs ==
    UNION { [1..n -> NormRecords] : n \in 0..MaxRaw }

InitNorm ==
    /\ pc = "normalise"
    /\ store = <<>>
    /\ event = "records"
    /\ AppAtRest
    /\ payload = JNull
    /\ pageOut = [raised |-> FALSE, records |-> <<>>]
    /\ raw \in RawInputs
    /\ loaded = EmptyFrame

\* Lines 58-103 on the records.
Normalised ==
    /\ pc = "normalise"
    /\ event = "records"
    /\ \E df \in {load_data(raw)} : loaded' = df
    /\ event' = "normalised"
    /\ UNCHANGED <<pc, items, next_page, req, runLog, store, lastRun, view,
                   payload, pageOut, raw>>

NormSpec == InitNorm /\ [][Normalised]_vars

\* The raw column a name resolves to: the exact column, else the first
\* column that is a variation of it, else none ("").
Resolved(cols, k) ==
    IF InSeq(k, cols) THEN k
    ELSE IF Alt(cols, k) # <<>> THEN Alt(cols, k)[1]
    ELSE ""

\* The raw column the amount is to come from: `amount` when it resolves,
\* `value` only when `amount` does not.
AmountSource(cols) ==
    IF Resolved(cols, "amount") # "" THEN Resolved(cols, "amount")
    ELSE Resolved(cols, "value")

\* C10: the amount column comes from the raw `amount` when one resolves and
\* from `value` only as a fallback; the output has at most one amount
\* column, each of its cells a number or absent.
C10_AmountFallback ==
    (event = "normalised" /\ raw # <<>>) =>
        LET rawFrame == json_normalize(raw)
            source == AmountSource(rawFrame.columns)
        IN /\ ~loaded.raised
           /\ CountColumn(loaded.columns, "valor") = IF source = "" THEN 0 ELSE 1
           /\ source # "" =>
                 Column(loaded, "valor")
                     = [r \in 1..Len(raw) |-> to_numeric(Column(rawFrame, source)[r])]

\* The fallback alone: records with `value` and no `amount` anywhere load,
\* and their amount is the numeric `value`.
ValueAloneIsAmount ==
    (event = "normalised" /\ raw # <<>>
        /\ Resolved(json_normalize(raw).columns, "amount") = ""
        /\ Resolved(json_normalize(raw).columns, "value") # "") =>
        /\ ~loaded.raised
        /\ CountColumn(loaded.columns, "valor") = 1
        /\ Column(loaded, "valor")
              = [r \in 1..Len(raw) |->
                    to_numeric(Column(json_normalize(raw),
                                      Resolved(json_normalize(raw).columns, "value"))[r])]

(***************************************************************************)
(* update_views over the snapshots load_data can store.                    *)
(***************************************************************************)
\* The longest snapshot update_views is applied to on its own.
MaxRows == 3

ViewRecords ==
    { JDict(<<Member("stage", JStr("won")), Member("status", JStr("open")),
              Member("amount", JNum(100))>>),
      JDict(<<Member("stage", JStr("lost")), Member("status", JStr("open")),
              Member("amount", JNull)>>),
      JDict(<<Member("stage", JStr("won")), Member("status", JStr("closed")),
              Member("amount", JNum(50))>>),
      JDict(<<Member("stage", JStr("won")), Member("status", JStr("open")),
              Member("amount", JNum(100)), Member("created_at", JStr("2024-01-05"))>>),
      JDict(<<Member("stage", JStr("lost")), Member("status", JStr("closed")),
              Member("amount", JStr("n/a")), Member("created_at", JStr("not-a-date"))>>),
      JDict(<<Member("id", JNum(7)), Member("closed_at", JStr("2023-12-31"))>>) }

\* The snapshots: every list of at most MaxRows records that loads.
ViewStores ==
    { to_dict_records(load_data(deals)) :
        deals \in { d \in UNION { [1..n -> ViewRecords] : n \in 0..MaxRows } :
                      ~load_data(d).raised } }

ViewStageSelections ==
    { JNull, JList(<<>>), JList(<<JStr("won")>>), JList(<<JStr("lost"), JStr("won")>>) }

ViewStatusSelections == { JNull, JList(<<>>), JList(<<JStr("open")>>) }

InitView ==
    /\ pc = "idle"
    /\ store \in ViewStores
    /\ event = "loaded"
    /\ AppAtRest
    /\ FunctionsAtRest

ViewSpec ==
    InitView /\ [][UpdateViews(ViewStageSelections, ViewStatusSelections)]_vars

\* The value a stored record has under a key, null when it has none.
Field(rec, key) == DictGet(rec, key)

\* The stored collection has the column.
HasColumn(data, key) == \E r \in 1..Len(data) : \E i \in 1..Len(data[r].l) : data[r].l[i].k = key

\* The records a selection keeps: all of them when the selection is empty
\* or absent or the column is missing, else those whose value is selected.
KeptBy(data, key, selected) ==
    IF selected.t = "list" /\ selected.l # <<>> /\ HasColumn(data, key)
    THEN SelectSeq(data, LAMBDA rec : InSeq(Field(rec, key), selected.l))
    ELSE data

\* The stage filter, then the status filter.
StatedRows(data, etapas_sel, status_sel) ==
    KeptBy(KeptBy(data, "etapa", etapas_sel), "status", status_sel)

Returned == view.called /\ ~view.raised

\* C6: update_views returns its four outputs, and never raises, on every
\* snapshot a load can store and every selection.
C6_UpdateViewsCannotFail == view.called => ~view.raised

\* C7: the table rows update_views returns are the stored records the stage
\* selection keeps and then the status selection keeps, in their order.
C7_TableRowsAreFiltered ==
    Returned => view.tabela = StatedRows(store, view.etapas_sel, view.status_sel)

\* C7 witness: stages won, lost, won filtered by {won} leave the two won
\* records.
C7_Witness ==
    /\ Returned
    /\ view.etapas_sel = JList(<<JStr("won")>>)
    /\ [r \in 1..Len(store) |-> Field(store[r], "etapa").s] = <<"won", "lost", "won">>
    /\ Len(view.tabela) = 2

RECURSIVE AmountTotal(_)
\* The sum of the amounts of the records that have one.
AmountTotal(data) ==
    IF data = <<>> THEN 0
    ELSE (IF Field(Head(data), "valor").t = "num" THEN Field(Head(data), "valor").n ELSE 0)
            + AmountTotal(Tail(data))

\* C8: the KPIs are the number of filtered records and, when some filtered
\* record has an amount, the sum of the amounts that are not absent; with
\* no amount column, or every amount absent, no sum is reported.
C8_Kpis ==
    Returned =>
        LET rows == StatedRows(store, view.etapas_sel, view.status_sel)
        IN view.kpis =
              << <<"Deals", IntText(Len(rows))>> >>
                 \o (IF \E r \in 1..Len(rows) : Field(rows[r], "valor").t = "num"
                     THEN << <<"Soma Valor", Money(AmountTotal(rows))>> >>
                     ELSE <<>>)

\* C8 witness: amounts 100, absent, 50 give the count 3 and the sum 150.
C8_Witness ==
    /\ Returned
    /\ [r \in 1..Len(view.tabela) |-> Field(view.tabela[r], "valor")]
          = <<JNum(100), JNull, JNum(50)>>
    /\ view.kpis = << <<"Deals", "3">>, <<"Soma Valor", "150.00">> >>

\* The date column of the stored collection: created_at, else closed_at.
StatedDateCol(data) ==
    IF HasColumn(data, "created_at") THEN "created_at"
    ELSE IF HasColumn(data, "closed_at") THEN "closed_at"
    ELSE ""

\* The year-month of a stored date, "YYYY-MM".
MonthOf(x) == SubSeq(x.s, 1, 7)

\* The months of the records with a date, each with its count, in
\* chronological order.
StatedBuckets(data) ==
    IF StatedDateCol(data) = "" THEN <<>>
    ELSE LET dated == SelectSeq(data, LAMBDA rec : Field(rec, StatedDateCol(data)).t # "null")
             months == SortedKeys({MonthOf(Field(dated[r], StatedDateCol(data))) : r \in 1..Len(dated)})
         IN [i \in 1..Len(months) |->
               <<months[i],
                 Cardinality({r \in 1..Len(dated) :
                     MonthOf(Field(dated[r], StatedDateCol(data))) = months[i]})>>]

\* C9: the monthly chart counts the filtered records with a date per
\* year-month of created_at (else closed_at), months in chronological order.
C9_MonthlyBuckets ==
    view.called =>
        /\ ~view.raised
        /\ view.fig2.bars
              = StatedBuckets(StatedRows(store, view.etapas_sel, view.status_sel))

====
